---- MODULE Spec2Model ----
(***************************************************************************)
(* Model of main.py: the /analyze_bias request pipeline                    *)
(*   request body -> get_article_content -> analyze_political_bias -> reply *)
(* Strings are sequences of one-character strings, so that Python's        *)
(* substring test (`in`), str.lower, str.strip and "\n".join are computed  *)
(* and not assumed.                                                        *)
(***************************************************************************)
EXTENDS Naturals, Sequences, FiniteSets

VARIABLES GOOGLE_API_KEY, pc, body, url, origin, soup, article_text,
          fetchCalls, inferCalls, inferInput, inferOutcome, exc, result, error

vars == <<GOOGLE_API_KEY, pc, body, url, origin, soup, article_text,
          fetchCalls, inferCalls, inferInput, inferOutcome, exc, result, error>>

(* ---------------------------------------------------------------------- *)
(* Bounds                                                                  *)
(* ---------------------------------------------------------------------- *)
MaxNodes == 4
MaxPageNodes == 3
MaxTextLen == 3

(* ---------------------------------------------------------------------- *)
(* Strings                                                                 *)
(* ---------------------------------------------------------------------- *)
\* Python None where a string is expected
NoneVal == <<"None">>

Truthy(s) == s # NoneVal /\ s # <<>>

\* sub in s
IsSubstring(sub, s) ==
    \E i \in 0..Len(s) :
        /\ i + Len(sub) <= Len(s)
        /\ \A j \in 1..Len(sub) : s[i + j] = sub[j]

UpperLetters == <<"A","B","C","D","E","F","G","H","I","J","K","L","M",
                  "N","O","P","Q","R","S","T","U","V","W","X","Y","Z">>
LowerLetters == <<"a","b","c","d","e","f","g","h","i","j","k","l","m",
                  "n","o","p","q","r","s","t","u","v","w","x","y","z">>

LowerChar(c) ==
    IF \E k \in 1..26 : UpperLetters[k] = c
    THEN LowerLetters[CHOOSE k \in 1..26 : UpperLetters[k] = c]
    ELSE c

\* str.lower()
Lower(s) == [i \in 1..Len(s) |-> LowerChar(s[i])]

Whitespace == {" ", "\n", "\t"}

RECURSIVE LStrip(_)
LStrip(s) == IF s # <<>> /\ Head(s) \in Whitespace THEN LStrip(Tail(s)) ELSE s

RECURSIVE RStrip(_)
RStrip(s) ==
    IF s # <<>> /\ s[Len(s)] \in Whitespace
    THEN RStrip(SubSeq(s, 1, Len(s) - 1))
    ELSE s

\* str.lstrip() in place of str.strip()
Strip_LeftOnly(s) == LStrip(s)

\* str.strip()
Strip(s) == RStrip(LStrip(s))

\* sep.join(parts)
RECURSIVE Join(_, _)
Join(parts, sep) ==
    IF parts = <<>> THEN <<>>
    ELSE IF Len(parts) = 1 THEN parts[1]
    ELSE parts[1] \o sep \o Join(Tail(parts), sep)

Digit(d) == <<"0","1","2","3","4","5","6","7","8","9">>[d + 1]

\* str(n) for a natural number
RECURSIVE Digits(_)
Digits(n) == IF n < 10 THEN <<Digit(n)>> ELSE Digits(n \div 10) \o <<Digit(n % 10)>>

RECURSIVE Flatten(_)
Flatten(ss) == IF ss = <<>> THEN <<>> ELSE Head(ss) \o Flatten(Tail(ss))

\* the elements of the set of naturals S, ascending
RECURSIVE Sorted(_)
Sorted(S) ==
    IF S = {} THEN <<>>
    ELSE LET m == CHOOSE x \in S : \A y \in S : x <= y
         IN <<m>> \o Sorted(S \ {m})

(* ---------------------------------------------------------------------- *)
(* Parsed documents                                                        *)
(* A document is the sequence of its elements in document order; every     *)
(* element names its parent (0 for the document root).  `text` is the text *)
(* directly inside the element.                                            *)
(* ---------------------------------------------------------------------- *)
NoClass == "None"

selectors == <<
    [tag |-> "div",     class_ |-> "story-element"],
    [tag |-> "div",     class_ |-> "story-body"],
    [tag |-> "article", class_ |-> NoClass],
    [tag |-> "div",     class_ |-> "article-body"],
    [tag |-> "div",     class_ |-> "content"],
    [tag |-> "main",    class_ |-> NoClass],
    [tag |-> "section", class_ |-> "article-content"] >>

ElementKinds == {
    [tag |-> "div",     classes |-> {"story-element"}, text |-> <<>>],
    [tag |-> "div",     classes |-> {"story-body"},    text |-> <<>>],
    [tag |-> "article", classes |-> {},                text |-> <<>>],
    [tag |-> "p",       classes |-> {},                text |-> <<>>],
    [tag |-> "p",       classes |-> {},                text |-> <<"a">>],
    [tag |-> "p",       classes |-> {},                text |-> <<"b">>] }

RECURSIVE Ancestors(_, _)
Ancestors(doc, i) ==
    IF doc[i].parent = 0 THEN {}
    ELSE {doc[i].parent} \cup Ancestors(doc, doc[i].parent)

\* where the next element in document order may be attached: the root, or
\* an open element (the last element or one of its ancestors); the <p>
\* elements of these documents hold text only
OpenParents(doc) ==
    {0} \cup (IF doc = <<>> THEN {}
              ELSE { i \in {Len(doc)} \cup Ancestors(doc, Len(doc)) :
                       doc[i].tag # "p" })

\* an element kind attached to parent q
Elements ==
    { [tag |-> k.tag, classes |-> k.classes, text |-> k.text, parent |-> q] :
        k \in ElementKinds, q \in 0..(MaxNodes - 1) }

\* the documents of exactly n elements
RECURSIVE DocumentsOfSize(_)
DocumentsOfSize(n) ==
    IF n = 0 THEN { <<>> }
    ELSE { Append(x[1], x[2]) :
             x \in { y \in DocumentsOfSize(n - 1) \X Elements :
                       y[2].parent \in OpenParents(y[1]) } }

\* element.find_all over the whole soup: matching elements, document order
find_all(doc, tag, class_) ==
    Sorted({ i \in 1..Len(doc) :
               /\ doc[i].tag = tag
               /\ (class_ = NoClass \/ class_ \in doc[i].classes) })

\* element.find_all('p'): the <p> descendants of element e, document order
find_all_p(doc, e) ==
    Sorted({ i \in 1..Len(doc) : doc[i].tag = "p" /\ e \in Ancestors(doc, i) })

\* p.get_text(): the text of the element and of all its descendants
get_text(doc, e) ==
    Flatten([k \in 1..Len(doc) |->
               IF k = e \/ e \in Ancestors(doc, k) THEN doc[k].text ELSE <<>>])

\* lines 56-59: the paragraphs of every matched element, appended in turn
AppendParagraphs(doc, elements) ==
    Flatten([k \in 1..Len(elements) |->
               LET ps == find_all_p(doc, elements[k])
               IN [j \in 1..Len(ps) |-> get_text(doc, ps[j])]])

\* the loop leaves at the first selector that matches any element
RECURSIVE SelectorLoop_BreakOnMatch(_, _)
SelectorLoop_BreakOnMatch(doc, k) ==
    IF k > Len(selectors) THEN <<>>
    ELSE LET elements == find_all(doc, selectors[k].tag, selectors[k].class_)
         IN IF elements # <<>> THEN AppendParagraphs(doc, elements)
            ELSE SelectorLoop_BreakOnMatch(doc, k + 1)

\* lines 53-61: the selector loop from selector k on, article_content empty
RECURSIVE SelectorLoop(_, _)
SelectorLoop(doc, k) ==
    IF k > Len(selectors) THEN <<>>
    ELSE LET elements == find_all(doc, selectors[k].tag, selectors[k].class_)
             article_content == AppendParagraphs(doc, elements)
         IN IF article_content # <<>> THEN article_content
            ELSE SelectorLoop(doc, k + 1)

\* lines 52-63
ExtractContent(doc) ==
    LET article_content == SelectorLoop(doc, 1)
    IN IF article_content # <<>> THEN Join(article_content, <<"\n">>) ELSE NoneVal

\* the strings of the model, character by character
URL_S == <<"u","/","s">>

URL_404 == <<"u","/","4","0","4">>

URL_403 == <<"u","/","4","0","3">>

URL_401 == <<"u","/","4","0","1">>

W_API_KEY == <<"A","P","I","_","K","E","Y">>

W_api_key == <<"a","p","i","_","k","e","y">>

W_Authentication == <<"A","u","t","h","e","n","t","i","c","a","t","i","o","n">>

W_denied == <<"d","e","n","i","e","d">>

W_Quota == <<"Q","u","o","t","a">>

W_exhausted == <<"e","x","h","a","u","s","t","e","d">>

W_limit == <<"l","i","m","i","t">>

W_error == <<"e","r","r","o","r">>

W_400 == <<"4","0","0"," ">>

S_401 == <<"4","0","1">>

S_403 == <<"4","0","3">>

S_404 == <<"4","0","4">>

S_API_KEY == <<"A","P","I","_","K","E","Y">>

S_authentication == <<"a","u","t","h","e","n","t","i","c","a","t","i","o","n">>

S_quota == <<"q","u","o","t","a">>

S_limit == <<"l","i","m","i","t">>

MSG_JSON == <<"E","x","p","e","c","t","i","n","g"," ","v","a","l","u","e">>

MSG_ATTR == <<"n","o"," ","a","t","t","r","i","b","u","t","e"," ","g","e","t">>

MSG_PARSE == <<"p","a","r","s","e"," ","f","a","i","l","e","d">>

MSG_TIMEOUT == <<"t","i","m","e","d"," ","o","u","t",":"," ">>

MSG_CONNECTION == <<"r","e","f","u","s","e","d",":"," ">>

MSG_FOR_URL == <<" ","E","r","r","o","r"," ","f","o","r"," ","u","r","l",":"," ">>

MSG_UNUSABLE == <<"n","o"," ","v","a","l","i","d"," ","P","a","r","t">>

(* ---------------------------------------------------------------------- *)
(* Inputs                                                                  *)
(* ---------------------------------------------------------------------- *)
\* os.getenv('GOOGLE_API_KEY'): unset, set to the empty string, set to a key
EnvValues == {"None", "", "key"}

Urls == { URL_S, URL_404, URL_403, URL_401 }

\* request bodies: not JSON, JSON that is not an object, objects with and
\* without a url
Bodies ==
    { [kind |-> "invalid_json", url |-> NoneVal],
      [kind |-> "non_object",   url |-> NoneVal],
      [kind |-> "object",       url |-> NoneVal],
      [kind |-> "object",       url |-> <<>>] }
    \cup { [kind |-> "object", url |-> u] : u \in Urls }

OriginStatuses == {200, 401, 403, 404, 500}

TransportFailures == {"timeout", "connection"}

\* texts the model may return
ModelChars == {" ", "\n", "N", "x"}

ModelTexts == UNION { [1..n -> ModelChars] : n \in 0..MaxTextLen }

\* why the inference call failed
InferCauses == {"auth", "quota", "other"}

InferWords == { W_API_KEY, W_api_key, W_Authentication, W_denied,
                W_Quota, W_exhausted, W_limit, W_error }

\* str(e) of a failed inference call: a status code and a word
InferMessages == InferWords \cup { W_400 \o w : w \in InferWords }

(* ---------------------------------------------------------------------- *)
(* Exceptions and responses                                                *)
(* ---------------------------------------------------------------------- *)
\* an f-string detail: fixed text, the interpolated value, fixed text
Detail(pre, arg, post) == [pre |-> pre, arg |-> arg, post |-> post]

NoDetail == Detail("", <<>>, "")

\* raise HTTPException(status_code=..., detail=...) at source line `site`;
\* context is str(e) of the exception being handled there (empty if none)
HTTPException(status, detail, context, site) ==
    [type |-> "HTTPException", status |-> status, detail |-> detail,
     context |-> context, site |-> site]

\* any other exception, with its str(e)
OtherException(type, message, site) ==
    [type |-> type, status |-> 0, detail |-> NoDetail,
     context |-> message, site |-> site]

NoException == [type |-> "None", status |-> 0, detail |-> NoDetail,
                context |-> <<>>, site |-> 0]

\* no parsed document in scope
NoSoup == <<[tag |-> "None", classes |-> {}, text |-> <<>>, parent |-> 0]>>

NoOrigin == [kind |-> "none", status |-> 0]

NoOutcome == [kind |-> "none", cause |-> "none", text |-> <<>>]

NoResult == [set |-> FALSE, political_bias |-> <<>>, url |-> <<>>]

NoError == [set |-> FALSE, status |-> 0, detail |-> NoDetail]

\* str(e) of the HTTPError raised by response.raise_for_status()
HTTPErrorMessage(status, u) == Digits(status) \o MSG_FOR_URL \o u

\* str(e) of a timeout or connection error of requests.get
TransportMessage(failure, u) ==
    (IF failure = "timeout" THEN MSG_TIMEOUT ELSE MSG_CONNECTION) \o u

\* lines 64-71: except requests.exceptions.RequestException as e
FetchErrorToHTTP(e, u) ==
    IF IsSubstring(S_401, e) \/ IsSubstring(S_403, e)
    THEN HTTPException(422,
             Detail("Website blocked access to URL: ", u,
                    ". Try a different news source."), e, 67)
    ELSE IF IsSubstring(S_404, e)
    THEN HTTPException(404, Detail("Article not found at URL: ", u, ""), e, 69)
    ELSE HTTPException(422,
             Detail("Failed to fetch article from URL: ", u, ""), e, 71)

\* lines 72-74: except Exception as e
ProcessingErrorToHTTP(e, u) ==
    HTTPException(500, Detail("Error processing article content from ", u, ""),
                  e, 74)

\* lines 96-103: except Exception as e
InferErrorToHTTP(e) ==
    IF IsSubstring(S_API_KEY, e) \/ IsSubstring(S_authentication, Lower(e))
    THEN HTTPException(401,
             Detail("Invalid Google API key. Please check your GOOGLE_API_KEY environment variable.",
                    <<>>, ""), e, 99)
    ELSE IF IsSubstring(S_quota, Lower(e)) \/ IsSubstring(S_limit, Lower(e))
    THEN HTTPException(429,
             Detail("Google API quota exceeded. Please try again later.",
                    <<>>, ""), e, 101)
    ELSE HTTPException(500, Detail("Google Gemini API error: ", e, ""), e, 103)

(* ---------------------------------------------------------------------- *)
(* The service                                                             *)
(* ---------------------------------------------------------------------- *)
Init ==
    /\ GOOGLE_API_KEY = "None"
    /\ pc = "boot"
    /\ body = [kind |-> "none", url |-> NoneVal]
    /\ url = NoneVal
    /\ origin = NoOrigin
    /\ soup = NoSoup
    /\ article_text = NoneVal
    /\ fetchCalls = 0
    /\ inferCalls = 0
    /\ inferInput = NoneVal
    /\ inferOutcome = NoOutcome
    /\ exc = NoException
    /\ result = NoResult
    /\ error = NoError

\* lines 16-24: module start-up
Startup ==
    /\ pc = "boot"
    /\ \E env \in EnvValues, configureRaises \in BOOLEAN :
          GOOGLE_API_KEY' =
              IF env \notin {"None", ""} /\ configureRaises THEN "None" ELSE env
    /\ pc' = "idle"
    /\ UNCHANGED <<body, url, origin, soup, article_text, fetchCalls,
                   inferCalls, inferInput, inferOutcome, exc, result, error>>

\* lines 115-118: data = await request.json(); url = data.get("url")
ParseRequest ==
    /\ pc = "idle"
    /\ \E b \in Bodies :
          /\ body' = b
          /\ CASE b.kind = "invalid_json" ->
                    /\ exc' = OtherException("JSONDecodeError", MSG_JSON, 115)
                    /\ pc' = "raised"
                    /\ url' = url
               [] b.kind = "non_object" ->
                    /\ exc' = OtherException("AttributeError", MSG_ATTR, 116)
                    /\ pc' = "raised"
                    /\ url' = url
               [] OTHER ->
                    /\ url' = b.url
                    /\ IF ~Truthy(b.url)
                       THEN /\ exc' = HTTPException(400,
                                          Detail("URL not provided.", <<>>, ""),
                                          <<>>, 118)
                            /\ pc' = "raised"
                       ELSE /\ exc' = exc
                            /\ pc' = "parsed"
    /\ UNCHANGED <<GOOGLE_API_KEY, origin, soup, article_text, fetchCalls,
                   inferCalls, inferInput, inferOutcome, result, error>>

\* lines 38-39 and 64-71: requests.get fails before any response arrives
FetchTransportFailure ==
    /\ pc = "parsed"
    /\ fetchCalls' = fetchCalls + 1
    /\ \E f \in TransportFailures :
          /\ origin' = [kind |-> f, status |-> 0]
          /\ exc' = FetchErrorToHTTP(TransportMessage(f, url), url)
    /\ pc' = "raised"
    /\ UNCHANGED <<GOOGLE_API_KEY, body, url, soup, article_text, inferCalls,
                   inferInput, inferOutcome, result, error>>

\* lines 38-40 and 64-74: requests.get returns a response
FetchResponse ==
    /\ pc = "parsed"
    /\ fetchCalls' = fetchCalls + 1
    /\ \E s \in OriginStatuses :
          /\ origin' = [kind |-> "http", status |-> s]
          /\ IF s >= 400
             THEN /\ exc' = FetchErrorToHTTP(HTTPErrorMessage(s, url), url)
                  /\ pc' = "raised"
                  /\ soup' = soup
             ELSE \/ /\ \E n \in 0..MaxPageNodes : \E doc \in DocumentsOfSize(n) : soup' = doc
                     /\ pc' = "fetched"
                     /\ exc' = exc
                  \/ /\ exc' = ProcessingErrorToHTTP(MSG_PARSE, url)
                     /\ pc' = "raised"
                     /\ soup' = soup
    /\ UNCHANGED <<GOOGLE_API_KEY, body, url, article_text, inferCalls,
                   inferInput, inferOutcome, result, error>>

\* lines 42-63: the selector loop and the return value
Extract ==
    /\ pc = "fetched"
    /\ article_text' = ExtractContent(soup)
    /\ pc' = "extracted"
    /\ UNCHANGED <<GOOGLE_API_KEY, body, url, origin, soup, fetchCalls,
                   inferCalls, inferInput, inferOutcome, exc, result, error>>

\* `if article_text is None` in place of `if not article_text`
CheckContent_NoneOnly ==
    /\ pc = "extracted"
    /\ IF article_text = NoneVal
       THEN /\ exc' = HTTPException(404,
                          Detail("No article content found. The website might not be supported or the article might be behind a paywall.",
                                 <<>>, ""), <<>>, 122)
            /\ pc' = "raised"
            /\ soup' = soup
       ELSE /\ exc' = exc
            /\ pc' = "classify"
            /\ soup' = NoSoup
    /\ UNCHANGED <<GOOGLE_API_KEY, body, url, origin, article_text, fetchCalls,
                   inferCalls, inferInput, inferOutcome, result, error>>

\* lines 120-122: if not article_text
CheckContent ==
    /\ pc = "extracted"
    /\ IF ~Truthy(article_text)
       THEN /\ exc' = HTTPException(404,
                          Detail("No article content found. The website might not be supported or the article might be behind a paywall.",
                                 <<>>, ""), <<>>, 122)
            /\ pc' = "raised"
            /\ soup' = soup
       ELSE /\ exc' = exc
            /\ pc' = "classify"
            /\ soup' = NoSoup
    /\ UNCHANGED <<GOOGLE_API_KEY, body, url, origin, article_text, fetchCalls,
                   inferCalls, inferInput, inferOutcome, result, error>>

\* `if GOOGLE_API_KEY is None` in place of `if not GOOGLE_API_KEY`
CheckKey_NoneOnly ==
    /\ pc = "classify"
    /\ IF GOOGLE_API_KEY = "None"
       THEN /\ exc' = HTTPException(500,
                          Detail("Google API key not configured. Please set GOOGLE_API_KEY environment variable.",
                                 <<>>, ""), <<>>, 82)
            /\ pc' = "raised"
       ELSE /\ exc' = exc
            /\ pc' = "infer"
    /\ UNCHANGED <<GOOGLE_API_KEY, body, url, origin, soup, article_text,
                   fetchCalls, inferCalls, inferInput, inferOutcome, result,
                   error>>

\* lines 80-82: if not GOOGLE_API_KEY
CheckKey ==
    /\ pc = "classify"
    /\ IF GOOGLE_API_KEY \in {"None", ""}
       THEN /\ exc' = HTTPException(500,
                          Detail("Google API key not configured. Please set GOOGLE_API_KEY environment variable.",
                                 <<>>, ""), <<>>, 82)
            /\ pc' = "raised"
       ELSE /\ exc' = exc
            /\ pc' = "infer"
    /\ UNCHANGED <<GOOGLE_API_KEY, body, url, origin, soup, article_text,
                   fetchCalls, inferCalls, inferInput, inferOutcome, result,
                   error>>

\* lines 89-95: model.generate_content(article_text) returns text
InferReturns ==
    /\ pc = "infer"
    /\ inferCalls' = inferCalls + 1
    /\ inferInput' = article_text
    /\ \E t \in ModelTexts :
          inferOutcome' = [kind |-> "text", cause |-> "none", text |-> t]
    /\ pc' = "classified"
    /\ UNCHANGED <<GOOGLE_API_KEY, body, url, origin, soup, article_text,
                   fetchCalls, exc, result, error>>

\* lines 89-103: the call raises, or the response has no text
InferFails ==
    /\ pc = "infer"
    /\ inferCalls' = inferCalls + 1
    /\ inferInput' = article_text
    /\ \/ \E c \in InferCauses, m \in InferMessages :
             /\ inferOutcome' = [kind |-> "error", cause |-> c, text |-> m]
             /\ exc' = InferErrorToHTTP(m)
       \/ /\ inferOutcome' = [kind |-> "error", cause |-> "unusable",
                              text |-> MSG_UNUSABLE]
          /\ exc' = InferErrorToHTTP(MSG_UNUSABLE)
    /\ pc' = "raised"
    /\ UNCHANGED <<GOOGLE_API_KEY, body, url, origin, soup, article_text,
                   fetchCalls, result, error>>

\* lines 95 and 124-126: strip the text and return the response body
ReturnResult ==
    /\ pc = "classified"
    /\ result' = [set |-> TRUE, political_bias |-> Strip(inferOutcome.text),
                  url |-> url]
    /\ pc' = "done"
    /\ UNCHANGED <<GOOGLE_API_KEY, body, url, origin, soup, article_text,
                   fetchCalls, inferCalls, inferInput, inferOutcome, exc,
                   error>>

\* without the `except HTTPException: raise` clause every exception falls
\* into `except Exception`
ExceptHTTPException_Swallowed ==
    /\ pc = "raised"
    /\ exc.type = "HTTPException"
    /\ error' = [set |-> TRUE, status |-> 500,
                 detail |-> Detail("An internal server error occurred: ",
                                   exc.context, "")]
    /\ pc' = "done"
    /\ UNCHANGED <<GOOGLE_API_KEY, body, url, origin, soup, article_text,
                   fetchCalls, inferCalls, inferInput, inferOutcome, exc,
                   result>>

\* lines 127-129: except HTTPException: raise
ExceptHTTPException ==
    /\ pc = "raised"
    /\ exc.type = "HTTPException"
    /\ error' = [set |-> TRUE, status |-> exc.status, detail |-> exc.detail]
    /\ pc' = "done"
    /\ UNCHANGED <<GOOGLE_API_KEY, body, url, origin, soup, article_text,
                   fetchCalls, inferCalls, inferInput, inferOutcome, exc,
                   result>>

\* lines 130-132: except Exception as e
ExceptException ==
    /\ pc = "raised"
    /\ exc.type # "HTTPException"
    /\ error' = [set |-> TRUE, status |-> 500,
                 detail |-> Detail("An internal server error occurred: ",
                                   exc.context, "")]
    /\ pc' = "done"
    /\ UNCHANGED <<GOOGLE_API_KEY, body, url, origin, soup, article_text,
                   fetchCalls, inferCalls, inferInput, inferOutcome, exc,
                   result>>

Next ==
    \/ Startup
    \/ ParseRequest
    \/ FetchTransportFailure
    \/ FetchResponse
    \/ Extract
    \/ CheckContent
    \/ CheckKey
    \/ InferReturns
    \/ InferFails
    \/ ReturnResult
    \/ ExceptHTTPException
    \/ ExceptException

Spec == Init /\ [][Next]_vars

\* the HTTP status the client receives
Status == IF result.set THEN 200 ELSE error.status

(* ---------------------------------------------------------------------- *)
(* The extraction on its own: get_article_content after a successful fetch *)
(* of any document, and the check of its result in analyze_bias            *)
(* ---------------------------------------------------------------------- *)
InitExtract ==
    /\ GOOGLE_API_KEY = "key"
    /\ pc = "fetched"
    /\ body = [kind |-> "object", url |-> URL_S]
    /\ url = URL_S
    /\ origin = [kind |-> "http", status |-> 200]
    /\ \E n \in 0..MaxNodes : soup \in DocumentsOfSize(n)
    /\ article_text = NoneVal
    /\ fetchCalls = 1
    /\ inferCalls = 0
    /\ inferInput = NoneVal
    /\ inferOutcome = NoOutcome
    /\ exc = NoException
    /\ result = NoResult
    /\ error = NoError

NextExtract == Extract \/ CheckContent

SpecExtract == InitExtract /\ [][NextExtract]_vars

(* ---------------------------------------------------------------------- *)
(* Properties                                                              *)
(* ---------------------------------------------------------------------- *)
Done == pc = "done"

\* element i of doc is matched by selector k
Matches(doc, i, k) ==
    /\ doc[i].tag = selectors[k].tag
    /\ (selectors[k].class_ = NoClass \/ selectors[k].class_ \in doc[i].classes)

\* the <p> elements nested in an element matched by selector k
NestedParagraphs(doc, k) ==
    { q \in 1..Len(doc) :
        /\ doc[q].tag = "p"
        /\ \E e \in Ancestors(doc, q) : Matches(doc, e, k) }

\* what the code collects for selector k alone
CollectedFor(doc, k) ==
    AppendParagraphs(doc, find_all(doc, selectors[k].tag, selectors[k].class_))

JoinedOrNone(parts) == IF parts = <<>> THEN NoneVal ELSE Join(parts, <<"\n">>)

Least(S) == CHOOSE x \in S : \A y \in S : x <= y

MalformedBody ==
    \/ body.kind \in {"invalid_json", "non_object"}
    \/ body.kind = "object" /\ ~Truthy(body.url)

\* C1: a request whose body is malformed (not JSON, not a JSON object, no
\* url, empty url) ends with status 400, and neither the page fetch nor the
\* inference call was issued.
C1_MalformedBodyIs400 ==
    (Done /\ MalformedBody) => (Status = 400 /\ fetchCalls = 0 /\ inferCalls = 0)

\* C2 (as stated): the first selector that matches any element decides the
\* result: only the paragraphs of its matched elements are returned, and no
\* later selector is tried, also when its elements hold no <p>.
C2_FirstMatchingSelectorWins ==
    pc = "extracted" =>
        LET matching == { k \in 1..Len(selectors) :
                            \E i \in 1..Len(soup) : Matches(soup, i, k) }
        IN IF matching = {} THEN article_text = NoneVal
           ELSE article_text = JoinedOrNone(CollectedFor(soup, Least(matching)))

\* C2 (amended): the first selector whose matched elements hold at least one
\* <p> decides the result: only the paragraphs of its matched elements are
\* returned and no later selector is tried; a selector that matches elements
\* without any <p> is passed over.  In particular, when a story-element
\* container holds a <p>, the result is the story-element paragraphs only.
C2_FirstSelectorWithParagraphsWins ==
    pc = "extracted" =>
        LET productive == { k \in 1..Len(selectors) :
                              NestedParagraphs(soup, k) # {} }
        IN IF productive = {} THEN article_text = NoneVal
           ELSE article_text = JoinedOrNone(CollectedFor(soup, Least(productive)))

\* a later selector has a paragraph of its own, and the earlier one won
C2_Witness ==
    /\ pc = "extracted"
    /\ \E k \in 1..Len(selectors) :
          /\ \A j \in 1..(k - 1) : NestedParagraphs(soup, j) = {}
          /\ NestedParagraphs(soup, k) # {}
          /\ \E j \in (k + 1)..Len(selectors) :
                NestedParagraphs(soup, j) \ NestedParagraphs(soup, k) # {}
          /\ article_text = Join(CollectedFor(soup, k), <<"\n">>)

\* C3: when a story-element container holds a <p>, the result is the texts
\* of the paragraphs nested in story-element containers, each paragraph
\* once, in document order, joined by one newline.
C3_StoryElementParagraphsOnce ==
    (pc = "extracted" /\ NestedParagraphs(soup, 1) # {}) =>
        LET ps == Sorted(NestedParagraphs(soup, 1))
        IN article_text =
               Join([j \in 1..Len(ps) |-> get_text(soup, ps[j])], <<"\n">>)

FetchFailed == fetchCalls = 1 /\ origin.kind # "none" /\
               ~(origin.kind = "http" /\ origin.status < 400)

\* C4: a fetch failure is mapped by its cause: origin 404 gives 404, origin
\* 401 or 403 gives 422, every other failure gives 422, whatever the URL and
\* the error text contain.
C4_FetchFailureByCause ==
    (Done /\ FetchFailed) =>
        IF origin.kind = "http" /\ origin.status = 404 THEN Status = 404
        ELSE Status = 422

\* the document was fetched and scanned, and no selector has any paragraph
ExtractionAbsent ==
    /\ soup # NoSoup
    /\ \A k \in 1..Len(selectors) : NestedParagraphs(soup, k) = {}

\* C5: when the fetch succeeds and no selector yields a paragraph, the
\* request ends with 404 (not 500) and no inference call is issued.
C5_AbsentContentIs404 ==
    (Done /\ ExtractionAbsent) => (Status = 404 /\ inferCalls = 0)

C5_Witness ==
    /\ Done /\ ExtractionAbsent
    /\ origin = [kind |-> "http", status |-> 200]
    /\ Len(soup) > 0
    /\ error.set /\ error.status = 404

\* r is t without its leading and trailing whitespace, otherwise unchanged
IsTrimOf(r, t) ==
    \E i \in 1..(Len(t) + 1) :
        /\ i + Len(r) <= Len(t) + 1
        /\ \A j \in 1..Len(r) : r[j] = t[i + j - 1]
        /\ \A j \in 1..(i - 1) : t[j] \in Whitespace
        /\ \A j \in (i + Len(r))..Len(t) : t[j] \in Whitespace
        /\ r # <<>> => (r[1] \notin Whitespace /\ r[Len(r)] \notin Whitespace)

KeyConfigured == GOOGLE_API_KEY \notin {"None", ""}

\* C6: with a credential and a successful extraction, exactly one inference
\* call is issued, on the full extracted text; when it returns text, the
\* response is 200 with that text trimmed and the original url.
C6_LabelIsTrimmedModelText ==
    /\ (Done /\ KeyConfigured /\ Truthy(article_text)) =>
           (inferCalls = 1 /\ inferInput = article_text)
    /\ (Done /\ inferOutcome.kind = "text") =>
           /\ Status = 200
           /\ result.set /\ ~error.set
           /\ IsTrimOf(result.political_bias, inferOutcome.text)
           /\ result.url = body.url

\* whitespace on both sides is removed; the text is not a canonical label
C6_Witness ==
    /\ Done
    /\ inferOutcome.text = <<" ", "x", "\n">>
    /\ result.political_bias = <<"x">>
    /\ inferCalls = 1
    /\ Status = 200

\* C7: without a credential, a call of analyze_political_bias fails with
\* 500, the inference call is not attempted, and the caller receives this
\* 500 unchanged.
C7_MissingCredentialIs500 ==
    (Done /\ ~KeyConfigured /\ Truthy(article_text)) =>
        /\ Status = 500
        /\ inferCalls = 0
        /\ error.detail = Detail("Google API key not configured. Please set GOOGLE_API_KEY environment variable.",
                                 <<>>, "")

C7_Witness ==
    /\ Done
    /\ GOOGLE_API_KEY = ""
    /\ Truthy(article_text)
    /\ exc.site = 82
    /\ error.status = 500
    /\ inferCalls = 0

\* the request failed with an exception that no handler classifies
Unclassified == exc.site \in {74, 103, 115, 116}

\* C8: an unclassified exception gives status 500 with a detail that does
\* not contain the exception's text.
C8_GenericDetail ==
    (Done /\ Unclassified) =>
        (Status = 500 /\ ~IsSubstring(exc.context, error.detail.arg))

\* C9: a failed inference call is reported by its cause: rejected
\* credential 401, quota exhaustion 429, anything else 500.
C9_InferenceFailureByCause ==
    (Done /\ inferOutcome.kind = "error") =>
        Status = (CASE inferOutcome.cause = "auth" -> 401
                    [] inferOutcome.cause = "quota" -> 429
                    [] OTHER -> 500)

\* C10: at most one fetch and one inference call; the inference call only
\* after a successful fetch and a non-empty extraction; a finished request
\* has a label or an error, never both, and an unfinished one has neither.
C10_SequentialNoRetry ==
    /\ fetchCalls <= 1
    /\ inferCalls <= 1
    /\ inferCalls = 1 =>
          /\ fetchCalls = 1
          /\ origin = [kind |-> "http", status |-> 200]
          /\ Truthy(article_text)
    /\ Done => (result.set # error.set)
    /\ ~Done => (~result.set /\ ~error.set)
    /\ result.set => inferCalls = 1

C10_Witness ==
    /\ Done
    /\ fetchCalls = 1
    /\ inferCalls = 1
    /\ result.set
    /\ ~error.set

====
